---- MODULE Spec2Model ----
(***************************************************************************)
(* A model of the Titan swap API client (src/src/lib.rs, src/src/quote.rs, *)
(* src/src/swap.rs): the request encoder build_query_params, the response  *)
(* classifier check_response, the step transcoder transform_step, and the  *)
(* two public calls TitanClient::quote and TitanClient::swap.              *)
(*                                                                         *)
(* Text is modelled as a sequence of one-character strings, so that        *)
(* substring search, decimal rendering and base-58 rendering are computed  *)
(* rather than assumed.  Option<T> is a sequence of length at most one.    *)
(***************************************************************************)
EXTENDS Integers, Sequences, FiniteSets, TLC

\* ------------------------------------------------------------------ bounds

\* Number of bytes of an address in the model (32 in the program).
AddrLen == 2

\* Cap on the number of quote() calls of one behaviour.
MaxCalls == 2

\* ----------------------------------------------------------------- options

None == <<>>

Some(x) == <<x>>

IsSome(o) == o # <<>>

\* Option::unwrap_or
UnwrapOr(o, d) == IF o = <<>> THEN d ELSE o[1]

\* Result<T, E>
Ok(v) == [tag |-> "Ok", val |-> v]

Err(e) == [tag |-> "Err", err |-> e]

\* -------------------------------------------------------------------- text

DigitChar == <<"0", "1", "2", "3", "4", "5", "6", "7", "8", "9">>

\* Display for the unsigned integer types: the decimal digits, most
\* significant first, no sign, no leading zero ("0" for zero).
RECURSIVE ToDecimal(_)
ToDecimal(n) ==
    IF n < 10 THEN <<DigitChar[n + 1]>>
    ELSE Append(ToDecimal(n \div 10), DigitChar[(n % 10) + 1])

\* Display for bool.
BoolToString(b) == IF b THEN <<"t", "r", "u", "e">> ELSE <<"f", "a", "l", "s", "e">>

Base58Alphabet ==
    <<"1", "2", "3", "4", "5", "6", "7", "8", "9",
      "A", "B", "C", "D", "E", "F", "G", "H", "J", "K", "L", "M", "N", "P",
      "Q", "R", "S", "T", "U", "V", "W", "X", "Y", "Z",
      "a", "b", "c", "d", "e", "f", "g", "h", "i", "j", "k", "m", "n", "o",
      "p", "q", "r", "s", "t", "u", "v", "w", "x", "y", "z">>

\* The big-endian value of a byte string.
RECURSIVE BytesValue(_)
BytesValue(bs) ==
    IF bs = <<>> THEN 0
    ELSE BytesValue(SubSeq(bs, 1, Len(bs) - 1)) * 256 + bs[Len(bs)]

RECURSIVE Base58Digits(_)
Base58Digits(n) ==
    IF n = 0 THEN <<>>
    ELSE Append(Base58Digits(n \div 58), Base58Alphabet[(n % 58) + 1])

RECURSIVE LeadingZeros(_)
LeadingZeros(bs) ==
    IF bs = <<>> \/ bs[1] # 0 THEN 0 ELSE 1 + LeadingZeros(Tail(bs))

\* Display for Pubkey: base-58, one "1" per leading zero byte.
PubkeyToString(pk) ==
    [i \in 1..LeadingZeros(pk) |-> "1"] \o Base58Digits(BytesValue(pk))

\* str::contains: needle occurs as a contiguous run of haystack.
Contains(hay, needle) ==
    \E i \in 0..(Len(hay) - Len(needle)) :
        SubSeq(hay, i + 1, i + Len(needle)) = needle

\* --------------------------------------------------------------- addresses

\* fn pubkey_from_bytes: Pubkey::from(*bytes), the same bytes as a Pubkey.
pubkey_from_bytes(bytes) == [i \in 1..AddrLen |-> bytes[i]]

\* Pubkey::default(): the all-zero address.
PubkeyDefault == [i \in 1..AddrLen |-> 0]

AddrA == [i \in 1..AddrLen |-> IF i = AddrLen THEN 1 ELSE 0]

AddrB == [i \in 1..AddrLen |-> IF i = 1 THEN 255 ELSE 7]

AddrC == [i \in 1..AddrLen |-> IF i = 1 THEN 6 ELSE 155]

\* ---------------------------------------------------------------- SwapMode

\* enum SwapMode { ExactIn, ExactOut }, by discriminant.
ExactIn == 0

ExactOut == 1

\* #[default] ExactIn
SwapModeDefault == ExactIn

S_ExactIn == <<"E", "x", "a", "c", "t", "I", "n">>

S_ExactOut == <<"E", "x", "a", "c", "t", "O", "u", "t">>

\* The match of build_query_params that renders a swap mode.
SwapModeParam(m) == IF m = ExactIn THEN S_ExactIn ELSE S_ExactOut

FromStr_Lenient(s) ==
    IF Contains(s, S_ExactIn) THEN Ok(ExactIn)
    ELSE IF Contains(s, S_ExactOut) THEN Ok(ExactOut)
    ELSE Err(s)

\* impl FromStr for SwapMode
FromStr(s) ==
    IF s = S_ExactIn THEN Ok(ExactIn)
    ELSE IF s = S_ExactOut THEN Ok(ExactOut)
    ELSE Err(s)

\* ------------------------------------------------------- build_query_params

\* One optional key/value pair: present when the option is set.
OptParam(key, o, value) == IF IsSome(o) THEN <<<<key, value>>>> ELSE <<>>

\* The slippage test of build_query_params: request.slippage_bps > 0.
SlippageIncluded_Always(bps) == bps >= 0

SlippageIncluded(bps) == bps > 0

\* fn build_query_params: the four required pairs, then each optional pair in
\* the order of the pushes.  A key is a string literal, a value is text.
build_query_params(request) ==
    <<<<"inputMint", PubkeyToString(request.input_mint)>>,
      <<"outputMint", PubkeyToString(request.output_mint)>>,
      <<"amount", ToDecimal(request.amount)>>,
      <<"userPublicKey", PubkeyToString(request.user_pubkey)>>>>
    \o OptParam("accountsLimitTotal", request.max_accounts,
                ToDecimal(UnwrapOr(request.max_accounts, 0)))
    \o OptParam("swapMode", request.swap_mode,
                SwapModeParam(UnwrapOr(request.swap_mode, SwapModeDefault)))
    \o (IF SlippageIncluded(request.slippage_bps)
        THEN <<<<"slippageBps", ToDecimal(request.slippage_bps)>>>>
        ELSE <<>>)
    \o OptParam("onlyDirectRoutes", request.only_direct_routes,
                BoolToString(UnwrapOr(request.only_direct_routes, FALSE)))
    \o OptParam("excludeDexes", request.excluded_dexes,
                UnwrapOr(request.excluded_dexes, <<>>))
    \o OptParam("sizeConstraint", request.size_constraints,
                ToDecimal(UnwrapOr(request.size_constraints, 0)))
    \o OptParam("accountsLimitWritable", request.accounts_limit_writable,
                ToDecimal(UnwrapOr(request.accounts_limit_writable, 0)))
    \o OptParam("providers", request.providers,
                UnwrapOr(request.providers, <<>>))

\* struct QuoteRequest, with the providers field build_query_params reads.
MkRequest(im, om, am, up, ma, sm, sl, od, ex, sc, aw, pr) ==
    [input_mint |-> im, output_mint |-> om, amount |-> am, user_pubkey |-> up,
     max_accounts |-> ma, swap_mode |-> sm, slippage_bps |-> sl,
     only_direct_routes |-> od, excluded_dexes |-> ex, size_constraints |-> sc,
     accounts_limit_writable |-> aw, providers |-> pr]

S_Raydium == <<"R", "a", "y", "d", "i", "u", "m">>

S_Titan == <<"T", "i", "t", "a", "n">>

\* The requests the encoder is checked on.  slippage_bps is a u16.
EncodeRequests ==
    {MkRequest(AddrA, AddrB, am, AddrC, ma, sm, sl, od, ex, sc, aw, pr) :
        am \in {0, 100000000},
        ma \in {None, Some(50)},
        sm \in {None, Some(ExactIn), Some(ExactOut)},
        sl \in {0, 1, 50, 65535},
        od \in {None, Some(TRUE), Some(FALSE)},
        ex \in {None, Some(<<>>), Some(S_Raydium)},
        sc \in {None, Some(0)},
        aw \in {None, Some(0), Some(12)},
        pr \in {None, Some(S_Titan)}}

\* Texts handed to SwapMode::from_str besides the rendered parameter.
ParseTexts ==
    {S_ExactIn, S_ExactOut, <<>>,
     <<"e", "x", "a", "c", "t", "i", "n">>,
     <<"E", "X", "A", "C", "T", "O", "U", "T">>,
     <<" ">> \o S_ExactIn,
     S_ExactOut \o <<" ">>,
     S_ExactIn \o <<"O", "u", "t">>,
     <<"E", "x", "a", "c", "t">>,
     <<"E", "x", "a", "c", "t", "i", "n">>}

\* ----------------------------------------------------------- wide integers

\* A u64 whose width matters is four 16-bit limbs, least significant first;
\* a u32 is two.  The other u64 fields of the model are small naturals.
U64(l0, l1, l2, l3) == <<l0, l1, l2, l3>>

U64Zero == U64(0, 0, 0, 0)

\* `x as u32` for a u64 x: the low 32 bits.
AsU32(x) == <<x[1], x[2]>>

\* The u64 with the value of a u32.
WidenU32(y) == <<y[1], y[2], 0, 0>>

\* x mod 2^32, as a u64.
Mod2Pow32(x) == <<x[1], x[2], 0, 0>>

\* ---------------------------------------------------------- transform_step

\* struct RoutePlanStepData
MkStep(amm, label, im, om, ia, oa, ppb, fm, fa, cs) ==
    [amm_key |-> amm, label |-> label, input_mint |-> im, output_mint |-> om,
     in_amount |-> ia, out_amount |-> oa, alloc_ppb |-> ppb,
     fee_mint |-> fm, fee_amount |-> fa, context_slot |-> cs]

\* The percent of a route-plan entry.
StepPercent_FromAlloc(step) == step.alloc_ppb \div 10000000

StepPercent(step) == 100

\* The fee address of a route-plan entry: map_or_else(Pubkey::default, ...).
StepFeeMint(step) ==
    IF IsSome(step.fee_mint) THEN pubkey_from_bytes(step.fee_mint[1])
    ELSE PubkeyDefault

\* fn transform_step
transform_step(step, default_context_slot) ==
    [swap_info |->
        [amm_key |-> pubkey_from_bytes(step.amm_key),
         label |-> step.label,
         input_mint |-> pubkey_from_bytes(step.input_mint),
         output_mint |-> pubkey_from_bytes(step.output_mint),
         in_amount |-> step.in_amount,
         out_amount |-> step.out_amount,
         alloc_ppb |-> step.alloc_ppb,
         fee_mint |-> StepFeeMint(step),
         fee_amount |-> UnwrapOr(step.fee_amount, 0),
         context_slot |-> UnwrapOr(step.context_slot, default_context_slot)],
     percent |-> StepPercent(step)]

\* The steps transform_step is checked on.  alloc_ppb is a u32.
TranscodeSteps ==
    {MkStep(AddrA, lb, m[1], m[2], am[1], am[2], ppb, fm, fa, cs) :
        lb \in {S_Raydium, <<>>},
        m \in {<<AddrB, AddrC>>, <<AddrC, PubkeyDefault>>},
        am \in {<<100000000, 99>>, <<0, 0>>},
        ppb \in {0, 250000000, 1000000000},
        fm \in {None, Some(PubkeyDefault), Some(AddrB)},
        fa \in {None, Some(0), Some(5)},
        cs \in {None, Some(0), Some(9)}}

\* The route-level context slots transform_step is checked with.
TranscodeRouteSlots == {None, Some(0), Some(7)}

\* ------------------------------------------------------------------ routes

\* struct AccountMetaData
MkMeta(p, s, w) == [p |-> p, s |-> s, w |-> w]

\* struct InstructionData
MkInst(p, a, d) == [p |-> p, a |-> a, d |-> d]

\* struct SwapRoute
MkRoute(oa, bps, pf, steps, insts, alts, cs, ns, ems, eas, cu, cus) ==
    [in_amount |-> 100000000, out_amount |-> oa, slippage_bps |-> bps,
     platform_fee |-> pf, steps |-> steps, instructions |-> insts,
     address_lookup_tables |-> alts, context_slot |-> cs, time_taken_ns |-> ns,
     expires_at_ms |-> ems, expires_after_slot |-> eas,
     compute_units |-> cu, compute_units_safe |-> cus,
     transaction |-> None, reference_id |-> None]

Step1 ==
    MkStep(AddrA, S_Raydium, AddrB, AddrC, 100000000, 730, 400000000,
           None, None, None)

Step2 ==
    MkStep(AddrC, S_Titan, AddrC, AddrA, 730, 99, 1000000000,
           Some(AddrB), Some(5), Some(9))

Inst1 ==
    MkInst(AddrA,
           <<MkMeta(AddrB, TRUE, FALSE), MkMeta(AddrC, FALSE, TRUE),
             MkMeta(AddrB, FALSE, FALSE)>>,
           <<1, 0, 255>>)

Inst2 == MkInst(AddrC, <<>>, <<>>)

\* The step list and instruction list of a route, together.
RouteShapes ==
    {<<<<>>, <<>>>>,
     <<<<Step1>>, <<Inst1>>>>,
     <<<<Step1, Step2>>, <<Inst1, Inst2>>>>,
     <<<<Step2, Step1>>, <<>>>>,
     <<<<>>, <<Inst2, Inst1>>>>}

\* The decoded routes the client is checked on: every shape under three
\* settings of the remaining fields.  The compute-unit estimates are
\* 2^32 + 5 and 200000.
Routes ==
    {MkRoute(99, 50, None, sh[1], sh[2], <<>>, None, None, None, None, None, None) :
        sh \in RouteShapes}
    \cup
    {MkRoute(98, 0, Some([amount |-> 3, fee_bps |-> 25]), sh[1], sh[2],
             <<AddrB, AddrA>>, Some(7), Some(1500000000), Some(1700), Some(8),
             Some(U64(5, 0, 1, 0)), Some(6)) :
        sh \in RouteShapes}
    \cup
    {MkRoute(97, 65535, None, sh[1], sh[2], <<AddrC>>, Some(0), Some(0), None, None,
             Some(U64(3392, 3, 0, 0)), None) :
        sh \in RouteShapes}

\* The keys of the decoded route map (opaque quote ids).
RouteIds == {"q1", "q2"}

\* SwapQuotes.quotes, a HashMap from quote id to route: no route, one route,
\* or any route beside one of the one-step routes.
QuoteMaps ==
    [{} -> Routes]
    \cup [{"q1"} -> Routes]
    \cup {m \in [RouteIds -> Routes] : m["q2"].steps = <<Step1>>}

\* ---------------------------------------------------------- check_response

NOT_FOUND == 404

S_NoRoutes == <<"N", "o", " ", "r", "o", "u", "t", "e", "s">>

\* StatusCode::is_success: 200..=299.
IsSuccess(status) == 200 <= status /\ status <= 299

\* The "no routes" test of check_response.
IsNoRoutes_AnyStatus(status, body) == Contains(body, S_NoRoutes)

IsNoRoutes(status, body) == status = NOT_FOUND /\ Contains(body, S_NoRoutes)

\* enum ClientError
HttpError == [kind |-> "HttpError"]

NoRoutesAvailable == [kind |-> "NoRoutesAvailable"]

MsgpackError == [kind |-> "MsgpackError"]

RequestFailed(status, body) ==
    [kind |-> "RequestFailed", status |-> status, body |-> body]

\* fn check_response.  resp.text is what response.text() gives: the body
\* text, or None when reading it fails (unwrap_or_default then gives "").
check_response(resp) ==
    IF IsSuccess(resp.status) THEN Ok(resp)
    ELSE LET status == resp.status
             body == UnwrapOr(resp.text, <<>>)
         IN  IF IsNoRoutes(status, body)
             THEN Err(NoRoutesAvailable)
             ELSE Err(RequestFailed(status, body))

\* ------------------------------------------------------- fetch_swap_quotes

\* What the network does with one quote() call: whether send() succeeds, the
\* response's status, what text() and bytes() give, and what decoding the
\* bytes gives (None: rmp_serde fails).
MkEnv(send_ok, status, text, bytes_ok, decoded) ==
    [send_ok |-> send_ok, status |-> status, text |-> text,
     bytes_ok |-> bytes_ok, decoded |-> decoded]

Bodies ==
    {<<>>,
     S_NoRoutes,
     <<"{", "e", ":">> \o S_NoRoutes \o <<" ", "f", "o", "u", "n", "d", "}">>,
     <<"n", "o", " ", "r", "o", "u", "t", "e", "s">>,
     <<"N", "o", " ", "r", "o", "u", "t", "e">>,
     <<"N", "o", "r", "o", "u", "t", "e", "s">>,
     <<"b", "o", "o", "m">>}

Envs ==
    {MkEnv(FALSE, 0, None, FALSE, None)}
    \cup {MkEnv(TRUE, st, tx, FALSE, None) :
            st \in {300, 400, 404, 500},
            tx \in {None} \cup {Some(b) : b \in Bodies}}
    \cup {MkEnv(TRUE, st, None, FALSE, None) : st \in {200, 299}}
    \cup {MkEnv(TRUE, st, None, TRUE, None) : st \in {200, 299}}
    \cup {MkEnv(TRUE, 200, None, TRUE, Some(q)) : q \in QuoteMaps}
    \cup {MkEnv(TRUE, 299, None, TRUE, Some(q)) :
            q \in {m \in QuoteMaps : DOMAIN m = {}}}

\* client.get(..).query(params)...send(): the requests put on the wire.
SendRequest_Retry(params, env) ==
    IF env.send_ok THEN <<params>> ELSE <<params, params>>

SendRequest(params, env) == <<params>>

\* async fn fetch_swap_quotes, with the requests it sent and the number of
\* decodings it attempted.
fetch_swap_quotes(params, env) ==
    LET sent == SendRequest(params, env)
        out(r, d) == [result |-> r, sent |-> sent, decodes |-> d]
    IN  IF ~env.send_ok THEN out(Err(HttpError), 0)
        ELSE LET checked == check_response([status |-> env.status, text |-> env.text])
             IN  IF checked.tag = "Err" THEN out(checked, 0)
                 ELSE IF ~env.bytes_ok THEN out(Err(HttpError), 0)
                 ELSE IF env.decoded = None THEN out(Err(MsgpackError), 1)
                 ELSE out(Ok(env.decoded[1]), 1)

\* ------------------------------------------------------- TitanClient::quote

\* The error quote() gives for an empty route map: ok_or(NoRoutesAvailable).
EmptyMapError_Msgpack == MsgpackError

EmptyMapError == NoRoutesAvailable

\* raw_route: route.clone(), the route quote() keeps in its response.
RetainedRoute_NoInstructions(route) == [route EXCEPT !.instructions = <<>>]

RetainedRoute(route) == route

\* time_taken: ns as f64 / 1e9, as whole seconds and the nanoseconds left.
NanosToSeconds(ns) == <<ns \div 1000000000, ns % 1000000000>>

\* let context_slot = route.context_slot.unwrap_or(0)
RouteContextSlot(route_slot) == UnwrapOr(route_slot, 0)

\* The QuoteResponse quote() builds from the selected route.
BuildQuoteResponse(request, route) ==
    LET context_slot == RouteContextSlot(route.context_slot)
        route_plan ==
            [i \in 1..Len(route.steps) |->
                transform_step(route.steps[i], context_slot)]
    IN  [input_mint |-> request.input_mint,
         in_amount |-> request.amount,
         output_mint |-> request.output_mint,
         out_amount |-> route.out_amount,
         swap_mode |-> UnwrapOr(request.swap_mode, SwapModeDefault),
         slippage_bps |-> route.slippage_bps,
         platform_fee |->
            IF IsSome(route.platform_fee)
            THEN Some([amount |-> route.platform_fee[1].amount,
                       fee_bps |-> route.platform_fee[1].fee_bps])
            ELSE None,
         raw_route |-> RetainedRoute(route),
         route_plan |-> route_plan,
         context_slot |-> route.context_slot,
         time_taken |->
            IF IsSome(route.time_taken_ns)
            THEN Some(NanosToSeconds(route.time_taken_ns[1]))
            ELSE None]

\* pub async fn quote.  pick is the key whose route into_values().next()
\* yields: a HashMap iterates in no particular order.  The record holds the
\* result with what the call did: the requests sent, the decodings attempted
\* and the number of steps transcoded.
quote(request, env, pick) ==
    LET params == build_query_params(request)
        fetched == fetch_swap_quotes(params, env)
        out(r, n) ==
            [request |-> request, env |-> env, sent |-> fetched.sent,
             decodes |-> fetched.decodes, transformed |-> n, result |-> r]
    IN  IF fetched.result.tag = "Err" THEN out(fetched.result, 0)
        ELSE LET quotes == fetched.result.val
             IN  IF DOMAIN quotes = {} THEN out(Err(EmptyMapError), 0)
                 ELSE LET response == BuildQuoteResponse(request, quotes[pick])
                      IN  out(Ok(response), Len(response.route_plan))

\* -------------------------------------------------------- TitanClient::swap

\* The test of swap(): route.instructions.is_empty().
NoInstructions_Never(route) == FALSE

NoInstructions(route) == route.instructions = <<>>

\* One AccountMeta of an instruction.
ToAccountMeta_FlagsSwapped(meta) ==
    [pubkey |-> pubkey_from_bytes(meta.p), is_signer |-> meta.w, is_writable |-> meta.s]

ToAccountMeta(meta) ==
    [pubkey |-> pubkey_from_bytes(meta.p), is_signer |-> meta.s, is_writable |-> meta.w]

\* One solana_sdk Instruction.
ToInstruction(inst) ==
    [program_id |-> pubkey_from_bytes(inst.p),
     accounts |-> [j \in 1..Len(inst.a) |-> ToAccountMeta(inst.a[j])],
     data |-> inst.d]

\* pub fn swap
swap(q) ==
    LET route == q.raw_route
    IN  IF NoInstructions(route) THEN Err(NoRoutesAvailable)
        ELSE Ok([instructions |->
                    [i \in 1..Len(route.instructions) |->
                        ToInstruction(route.instructions[i])],
                 address_lookup_table_addresses |->
                    [i \in 1..Len(route.address_lookup_tables) |->
                        pubkey_from_bytes(route.address_lookup_tables[i])],
                 compute_unit_limit |-> AsU32(UnwrapOr(route.compute_units, U64Zero)),
                 compute_units_safe |-> route.compute_units_safe,
                 context_slot |-> route.context_slot,
                 expires_at_ms |-> route.expires_at_ms,
                 expires_after_slot |-> route.expires_after_slot])

\* The requests the client is checked on.
ClientRequests ==
    {MkRequest(AddrA, AddrB, 100000000, AddrC, Some(50), Some(ExactOut), 50,
               None, None, None, None, None),
     MkRequest(AddrC, AddrA, 7, AddrB, None, None, 0,
               Some(TRUE), Some(S_Raydium), Some(0), Some(12), Some(S_Titan))}

\* ------------------------------------------------------------------- state

VARIABLES
    quoteCall,    \* the last quote() call and its result; None before any
    swapCall,     \* the last swap() call: its argument and result; or None
    nQuote,       \* quote() calls made
    nHttp,        \* HTTP requests sent
    encRequest,   \* the request handed to build_query_params
    encParams,    \* Some(its result), None before the call
    parseSrc,     \* where the text handed to from_str came from
    parseIn,      \* Some(the text handed to from_str), or None
    parseOut,     \* Some(the result of from_str), or None
    stepIn,       \* the step handed to transform_step
    stepRouteSlot,\* the context slot of the route it belongs to
    stepOut       \* Some(the route-plan entry), None before the call

clientVars == <<quoteCall, swapCall, nQuote, nHttp>>

encodeVars == <<encRequest, encParams, parseSrc, parseIn, parseOut>>

stepVars == <<stepIn, stepRouteSlot, stepOut>>

vars == <<clientVars, encodeVars, stepVars>>

ClientIdle ==
    /\ quoteCall = None
    /\ swapCall = None
    /\ nQuote = 0
    /\ nHttp = 0

EncodeIdle ==
    /\ encParams = None
    /\ parseSrc = "none"
    /\ parseIn = None
    /\ parseOut = None

StepIdle ==
    /\ stepIn = Step1
    /\ stepRouteSlot = None
    /\ stepOut = None

\* ------------------------------------------------------ the client, in use

Init ==
    /\ ClientIdle
    /\ encRequest = CHOOSE r \in ClientRequests : TRUE
    /\ EncodeIdle
    /\ StepIdle

\* The keys into_values().next() may yield the route of.
Picks(env) ==
    IF env.decoded # None /\ DOMAIN env.decoded[1] # {}
    THEN DOMAIN env.decoded[1]
    ELSE {"q1"}

\* The caller calls quote(): one of the requests, against whatever the
\* network does.  The quote it held and the swap built from it are replaced.
Quote ==
    /\ nQuote < MaxCalls
    /\ \E request \in ClientRequests, env \in Envs :
        \E pick \in Picks(env) :
            LET call == quote(request, env, pick)
            IN  /\ quoteCall' = Some(call)
                /\ nHttp' = nHttp + Len(call.sent)
    /\ nQuote' = nQuote + 1
    /\ swapCall' = None
    /\ UNCHANGED <<encodeVars, stepVars>>

\* The caller calls swap() on the QuoteResponse the last quote() returned.
Swap ==
    /\ quoteCall # None
    /\ quoteCall[1].result.tag = "Ok"
    /\ swapCall' = Some([arg |-> quoteCall[1].result.val,
                         result |-> swap(quoteCall[1].result.val)])
    /\ UNCHANGED <<quoteCall, nQuote, nHttp, encodeVars, stepVars>>

Next == Quote \/ Swap

Spec == Init /\ [][Next]_vars

\* ------------------------------------------------- the encoder, on its own

InitEncode ==
    /\ ClientIdle
    /\ encRequest \in EncodeRequests
    /\ EncodeIdle
    /\ StepIdle

\* build_query_params is applied to the request.
BuildQueryParams ==
    /\ encParams = None
    /\ encParams' = Some(build_query_params(encRequest))
    /\ UNCHANGED <<encRequest, parseSrc, parseIn, parseOut, clientVars, stepVars>>

\* The value of the first pair of params with the given key.
ParamValue(params, key) ==
    params[CHOOSE i \in 1..Len(params) : params[i][1] = key][2]

HasParam(params, key) == \E i \in 1..Len(params) : params[i][1] = key

\* SwapMode::from_str is applied to the rendered swapMode parameter.
ParseParam ==
    /\ encParams # None
    /\ HasParam(encParams[1], "swapMode")
    /\ parseSrc' = "param"
    /\ parseIn' = Some(ParamValue(encParams[1], "swapMode"))
    /\ parseOut' = Some(FromStr(ParamValue(encParams[1], "swapMode")))
    /\ UNCHANGED <<encRequest, encParams, clientVars, stepVars>>

\* SwapMode::from_str is applied to some other text.
ParseText ==
    /\ \E s \in ParseTexts :
        /\ parseSrc' = "text"
        /\ parseIn' = Some(s)
        /\ parseOut' = Some(FromStr(s))
    /\ UNCHANGED <<encRequest, encParams, clientVars, stepVars>>

NextEncode == BuildQueryParams \/ ParseParam \/ ParseText

SpecEncode == InitEncode /\ [][NextEncode]_vars

\* ----------------------------------------- the step transcoder, on its own

InitStep ==
    /\ ClientIdle
    /\ encRequest = CHOOSE r \in ClientRequests : TRUE
    /\ EncodeIdle
    /\ stepIn \in TranscodeSteps
    /\ stepRouteSlot \in TranscodeRouteSlots
    /\ stepOut = None

\* quote() transcodes the step of a route with the given context slot.
TransformStep ==
    /\ stepOut = None
    /\ stepOut' = Some(transform_step(stepIn, RouteContextSlot(stepRouteSlot)))
    /\ UNCHANGED <<stepIn, stepRouteSlot, clientVars, encodeVars>>

NextStep == TransformStep

SpecStep == InitStep /\ [][NextStep]_vars

\* ------------------------------------------------------------------ claims

\* The last quote() call got a response (send() succeeded).
GotResponse == quoteCall # None /\ quoteCall[1].env.send_ok

\* The last quote() call decoded a route map.
DecodedMap ==
    /\ GotResponse
    /\ quoteCall[1].env.status \in 200..299
    /\ quoteCall[1].env.bytes_ok
    /\ quoteCall[1].env.decoded # None

\* C1: every response is classified into exactly one outcome.  A 2xx status
\* goes on to the body and its decoding and never gives RequestFailed; a 404
\* whose body text contains "No routes" gives NoRoutesAvailable; every other
\* non-2xx response gives RequestFailed with the same status and the body
\* text as read (the empty text when the body cannot be read), and is never
\* decoded.
C1_ResponseClassified ==
    GotResponse =>
        LET c == quoteCall[1]
            st == c.env.status
            marked == st = 404 /\ c.env.text # None /\ Contains(c.env.text[1], S_NoRoutes)
        IN  /\ st \in 200..299 =>
                /\ c.env.bytes_ok => c.decodes = 1
                /\ c.result.tag = "Err" => c.result.err.kind # "RequestFailed"
                /\ c.env.bytes_ok /\ c.env.decoded # None /\ DOMAIN c.env.decoded[1] # {}
                      => c.result.tag = "Ok"
            /\ st \notin 200..299 /\ marked => c.result = Err(NoRoutesAvailable)
            /\ st \notin 200..299 /\ ~marked =>
                c.result =
                    Err([kind |-> "RequestFailed", status |-> st,
                         body |-> IF c.env.text = None THEN <<>> ELSE c.env.text[1]])
            /\ st \notin 200..299 => c.decodes = 0

\* A 404 whose body holds the marker inside other text was classified.
C1_Witness ==
    /\ GotResponse
    /\ quoteCall[1].env.status = 404
    /\ quoteCall[1].env.text # None
    /\ Len(quoteCall[1].env.text[1]) > Len(S_NoRoutes)
    /\ Contains(quoteCall[1].env.text[1], S_NoRoutes)
    /\ quoteCall[1].result = Err(NoRoutesAvailable)

\* C2: when the response decodes to an empty route map, quote() fails with
\* NoRoutesAvailable, transcodes no step and returns no QuoteResponse.
C2_EmptyMapFails ==
    DecodedMap /\ DOMAIN quoteCall[1].env.decoded[1] = {} =>
        /\ quoteCall[1].result = Err(NoRoutesAvailable)
        /\ quoteCall[1].transformed = 0

C2_Witness ==
    /\ DecodedMap
    /\ DOMAIN quoteCall[1].env.decoded[1] = {}
    /\ quoteCall[1].result.tag = "Err"

\* C3: swap() on a quote whose raw route has no instruction fails with
\* NoRoutesAvailable and returns no SwapResponse, whatever the route's lookup
\* tables and metadata; with at least one instruction it never fails.
C3_SwapFailsIffNoInstructions ==
    swapCall # None =>
        LET route == swapCall[1].arg.raw_route
        IN  /\ Len(route.instructions) = 0 => swapCall[1].result = Err(NoRoutesAvailable)
            /\ Len(route.instructions) >= 1 => swapCall[1].result.tag = "Ok"

\* swap() refused a route with lookup tables and an estimate but no instruction.
C3_Witness ==
    /\ swapCall # None
    /\ Len(swapCall[1].arg.raw_route.instructions) = 0
    /\ Len(swapCall[1].arg.raw_route.address_lookup_tables) = 2
    /\ swapCall[1].arg.raw_route.compute_units # None
    /\ swapCall[1].result.tag = "Err"

\* Two addresses hold the same bytes.
SameAddress(pk, bytes) == \A k \in 1..AddrLen : pk[k] = bytes[k]

\* C4: for a raw route with n >= 1 instructions swap() returns n
\* instructions in the same order, each with the program address, the
\* account references (address, signer flag, writable flag, in order) and the
\* data bytes of its raw instruction, and the lookup-table addresses of the
\* route in the same number and order.
C4_InstructionsFaithful ==
    swapCall # None /\ Len(swapCall[1].arg.raw_route.instructions) >= 1 =>
        LET route == swapCall[1].arg.raw_route
            raw == route.instructions
            res == swapCall[1].result
        IN  /\ res.tag = "Ok"
            /\ Len(res.val.instructions) = Len(raw)
            /\ \A i \in 1..Len(raw) :
                LET ins == res.val.instructions[i]
                IN  /\ SameAddress(ins.program_id, raw[i].p)
                    /\ Len(ins.accounts) = Len(raw[i].a)
                    /\ \A j \in 1..Len(raw[i].a) :
                        /\ SameAddress(ins.accounts[j].pubkey, raw[i].a[j].p)
                        /\ ins.accounts[j].is_signer = raw[i].a[j].s
                        /\ ins.accounts[j].is_writable = raw[i].a[j].w
                    /\ ins.data = raw[i].d
            /\ Len(res.val.address_lookup_table_addresses)
                  = Len(route.address_lookup_tables)
            /\ \A i \in 1..Len(route.address_lookup_tables) :
                SameAddress(res.val.address_lookup_table_addresses[i],
                            route.address_lookup_tables[i])

\* swap() built two instructions, the first with three accounts, and two
\* lookup-table addresses.
C4_Witness ==
    /\ swapCall # None
    /\ swapCall[1].result.tag = "Ok"
    /\ Len(swapCall[1].result.val.instructions) = 2
    /\ Len(swapCall[1].result.val.instructions[1].accounts) = 3
    /\ Len(swapCall[1].result.val.address_lookup_table_addresses) = 2

\* A u64 above 2^32 - 1.
WiderThanU32(x) == x[3] # 0 \/ x[4] # 0

\* C5: swap() sets compute_unit_limit to 0 when the route has no
\* compute-unit estimate and to the estimate itself when it has one; for an
\* estimate above 2^32 - 1 the limit is never the estimate modulo 2^32.
C5_ComputeUnitLimitNotWrapped ==
    swapCall # None /\ swapCall[1].result.tag = "Ok" =>
        LET cu == swapCall[1].arg.raw_route.compute_units
            limit == swapCall[1].result.val.compute_unit_limit
        IN  /\ cu = None => WidenU32(limit) = U64Zero
            /\ cu # None => WidenU32(limit) = cu[1]
            /\ cu # None /\ WiderThanU32(cu[1]) => WidenU32(limit) # Mod2Pow32(cu[1])

\* The QuoteResponse q is derived from route r for the given request.
DerivedFrom(q, r, request) ==
    /\ q.raw_route = r
    /\ q.out_amount = r.out_amount
    /\ q.slippage_bps = r.slippage_bps
    /\ Len(q.route_plan) = Len(r.steps)
    /\ \A i \in 1..Len(r.steps) :
        /\ SameAddress(q.route_plan[i].swap_info.amm_key, r.steps[i].amm_key)
        /\ q.route_plan[i].swap_info.label = r.steps[i].label
        /\ q.route_plan[i].swap_info.in_amount = r.steps[i].in_amount
        /\ q.route_plan[i].swap_info.out_amount = r.steps[i].out_amount
    /\ q.input_mint = request.input_mint
    /\ q.output_mint = request.output_mint
    /\ q.in_amount = request.amount

\* C9: when the decoded route map is not empty, quote() succeeds with a
\* QuoteResponse derived from one route of the map: raw_route is that route
\* unmodified, out_amount and slippage_bps are its own, route_plan has one
\* entry per step in the same order, and the mints and in_amount are the
\* request's; a later swap() on the response takes its instructions from
\* that route.
C9_OneRouteOfTheMapRetained ==
    DecodedMap /\ DOMAIN quoteCall[1].env.decoded[1] # {} =>
        LET c == quoteCall[1]
            quotes == c.env.decoded[1]
        IN  /\ c.result.tag = "Ok"
            /\ \E id \in DOMAIN quotes :
                /\ DerivedFrom(c.result.val, quotes[id], c.request)
                /\ swapCall # None =>
                    /\ swapCall[1].arg = c.result.val
                    /\ swapCall[1].result.tag = "Ok" =>
                        /\ Len(swapCall[1].result.val.instructions)
                              = Len(quotes[id].instructions)
                        /\ \A i \in 1..Len(quotes[id].instructions) :
                            /\ SameAddress(swapCall[1].result.val.instructions[i].program_id,
                                           quotes[id].instructions[i].p)
                            /\ swapCall[1].result.val.instructions[i].data
                                  = quotes[id].instructions[i].d
                    /\ swapCall[1].result.tag = "Err" =>
                        Len(quotes[id].instructions) = 0

\* quote() chose between two different routes, kept a two-step one, and
\* swap() built its instructions.
C9_Witness ==
    /\ DecodedMap
    /\ DOMAIN quoteCall[1].env.decoded[1] = RouteIds
    /\ quoteCall[1].env.decoded[1]["q1"] # quoteCall[1].env.decoded[1]["q2"]
    /\ quoteCall[1].result.tag = "Ok"
    /\ Len(quoteCall[1].result.val.route_plan) = 2
    /\ swapCall # None
    /\ swapCall[1].result.tag = "Ok"

\* The kinds a quote() call ends in.
QuoteOutcome(c) == IF c.result.tag = "Ok" THEN "Ok" ELSE c.result.err.kind

\* C10: over any sequence of quote() and swap() calls the number of HTTP
\* requests sent equals the number of quote() calls: each quote() sends
\* exactly one request whatever its outcome, ends in success, HttpError,
\* RequestFailed, NoRoutesAvailable or MsgpackError, and attempts a decoding
\* only after a 2xx response; swap() sends none.
C10_OneRequestPerQuote ==
    /\ nHttp = nQuote
    /\ quoteCall # None =>
        LET c == quoteCall[1]
        IN  /\ Len(c.sent) = 1
            /\ QuoteOutcome(c) \in
                  {"Ok", "HttpError", "RequestFailed", "NoRoutesAvailable", "MsgpackError"}
            /\ c.decodes \in {0, 1}
            /\ c.decodes = 1 => c.env.send_ok /\ c.env.status \in 200..299
            /\ c.result.tag = "Ok" => c.decodes = 1

\* A second quote() failed in transport after a first one, and no third
\* request went out.
C10_Witness ==
    /\ nQuote >= 2
    /\ quoteCall # None
    /\ ~quoteCall[1].env.send_ok
    /\ QuoteOutcome(quoteCall[1]) = "HttpError"

\* The keys of the query parameters, in the order of the wire contract.
KeyOrder ==
    <<"inputMint", "outputMint", "amount", "userPublicKey", "accountsLimitTotal",
      "swapMode", "slippageBps", "onlyDirectRoutes", "excludeDexes",
      "sizeConstraint", "accountsLimitWritable", "providers">>

KeyPos(key) == CHOOSE i \in 1..Len(KeyOrder) : KeyOrder[i] = key

\* The number a text of decimal digits denotes (-1 when it has any other
\* character or none).
RECURSIVE DecimalValue(_)
DecimalValue(t) ==
    IF t = <<>> THEN -1
    ELSE IF ~(\E d \in 1..10 : DigitChar[d] = t[Len(t)]) THEN -1
    ELSE LET d == (CHOOSE k \in 1..10 : DigitChar[k] = t[Len(t)]) - 1
         IN  IF Len(t) = 1 THEN d
             ELSE LET hi == DecimalValue(SubSeq(t, 1, Len(t) - 1))
                  IN  IF hi < 0 THEN -1 ELSE hi * 10 + d

\* t is the decimal rendering of n: its digits, with no leading zero.
IsDecimalOf(t, n) ==
    /\ DecimalValue(t) = n
    /\ Len(t) > 1 => t[1] # "0"

\* C6: the keys of build_query_params are a subsequence of the wire order
\* with no key repeated; the four required keys come first and are always
\* there; each optional key is there exactly when its request field is set,
\* and slippageBps exactly when slippage_bps > 0, with the decimal rendering
\* of slippage_bps as its value.
C6_QueryParamsOrdered ==
    encParams # None =>
        LET ps == encParams[1]
            r == encRequest
            has(key) == HasParam(ps, key)
        IN  /\ \A i \in 1..Len(ps) : \E k \in 1..Len(KeyOrder) : KeyOrder[k] = ps[i][1]
            /\ \A i, j \in 1..Len(ps) : i < j => KeyPos(ps[i][1]) < KeyPos(ps[j][1])
            /\ Len(ps) >= 4
            /\ \A i \in 1..4 : ps[i][1] = KeyOrder[i]
            /\ has("accountsLimitTotal") <=> r.max_accounts # None
            /\ has("swapMode") <=> r.swap_mode # None
            /\ has("onlyDirectRoutes") <=> r.only_direct_routes # None
            /\ has("excludeDexes") <=> r.excluded_dexes # None
            /\ has("sizeConstraint") <=> r.size_constraints # None
            /\ has("accountsLimitWritable") <=> r.accounts_limit_writable # None
            /\ has("providers") <=> r.providers # None
            /\ has("slippageBps") <=> r.slippage_bps > 0
            /\ has("slippageBps") => IsDecimalOf(ParamValue(ps, "slippageBps"), r.slippage_bps)

\* All twelve parameters were built, for the largest slippage.
C6_Witness ==
    /\ encParams # None
    /\ Len(encParams[1]) = 12
    /\ encRequest.slippage_bps = 65535
    /\ ParamValue(encParams[1], "slippageBps") = <<"6", "5", "5", "3", "5">>

\* C7: ExactIn is rendered as "ExactIn" and ExactOut as "ExactOut" in the
\* query parameters, from_str of the rendered text gives the mode back, and
\* from_str fails for every text other than these two.
C7_SwapModeRoundTrip ==
    /\ encParams # None /\ encRequest.swap_mode = Some(ExactIn)
          => ParamValue(encParams[1], "swapMode") = <<"E", "x", "a", "c", "t", "I", "n">>
    /\ encParams # None /\ encRequest.swap_mode = Some(ExactOut)
          => ParamValue(encParams[1], "swapMode") = <<"E", "x", "a", "c", "t", "O", "u", "t">>
    /\ parseSrc = "param" => parseOut = Some(Ok(encRequest.swap_mode[1]))
    /\ parseSrc = "text" =>
        /\ parseIn[1] = <<"E", "x", "a", "c", "t", "I", "n">> => parseOut[1] = Ok(ExactIn)
        /\ parseIn[1] = <<"E", "x", "a", "c", "t", "O", "u", "t">> => parseOut[1] = Ok(ExactOut)
        /\ parseIn[1] \notin {<<"E", "x", "a", "c", "t", "I", "n">>,
                              <<"E", "x", "a", "c", "t", "O", "u", "t">>}
              => parseOut[1].tag = "Err"

\* The rendered ExactOut parameter was parsed back.
C7_Witness ==
    /\ parseSrc = "param"
    /\ encRequest.swap_mode = Some(ExactOut)
    /\ parseIn = Some(S_ExactOut)
    /\ parseOut = Some(Ok(ExactOut))

\* C8: transform_step gives percent 100 whatever the allocation fraction,
\* which is kept in alloc_ppb; copies the venue key, label, input and output
\* addresses and amounts; gives the zero address and 0 for a missing fee
\* address and fee amount and the step's own otherwise; and gives the step's
\* context slot, else the route's, else 0.
C8_StepTranscoded ==
    stepOut # None =>
        LET o == stepOut[1].swap_info
            st == stepIn
        IN  /\ stepOut[1].percent = 100
            /\ o.alloc_ppb = st.alloc_ppb
            /\ SameAddress(o.amm_key, st.amm_key)
            /\ o.label = st.label
            /\ SameAddress(o.input_mint, st.input_mint)
            /\ SameAddress(o.output_mint, st.output_mint)
            /\ o.in_amount = st.in_amount
            /\ o.out_amount = st.out_amount
            /\ st.fee_mint = None => \A k \in 1..AddrLen : o.fee_mint[k] = 0
            /\ st.fee_mint # None => SameAddress(o.fee_mint, st.fee_mint[1])
            /\ st.fee_amount = None => o.fee_amount = 0
            /\ st.fee_amount # None => o.fee_amount = st.fee_amount[1]
            /\ o.context_slot =
                  IF st.context_slot # None THEN st.context_slot[1]
                  ELSE IF stepRouteSlot # None THEN stepRouteSlot[1]
                  ELSE 0

\* A step with a quarter allocation, no fee and no slot of its own was
\* transcoded within a route that has a slot.
C8_Witness ==
    /\ stepOut # None
    /\ stepIn.alloc_ppb = 250000000
    /\ stepIn.fee_mint = None
    /\ stepIn.fee_amount = None
    /\ stepIn.context_slot = None
    /\ stepRouteSlot = Some(7)
    /\ stepOut[1].swap_info.context_slot = 7
    /\ stepOut[1].percent = 100

====
